---------------------------- MODULE Spec2Model ----------------------------
(***************************************************************************)
(* Model of lecroyreader/lecroy.py: read(fn, readdata, scale), the reader  *)
(* of LeCroy .trc oscilloscope traces.                                     *)
(*                                                                         *)
(* A file is a sequence of bytes (0..255).  Python offsets are 0-based;    *)
(* the byte at Python offset i is raw[i+1].  read() is modelled as the     *)
(* pipeline of its source blocks, one action per block, with pc the        *)
(* position reached.  A Python exception ends the run: exc holds the       *)
(* exception's class name and raisedAt the block that raised it.           *)
(*                                                                         *)
(* Python floats are modelled exactly as dyadic rationals                  *)
(* [k |-> "fin", m |-> mantissa, e |-> exponent] = m * 2^e with m odd (or  *)
(* m = 0, e = 0); infinities and NaN have k = "inf" / "nan".               *)
(***************************************************************************)
EXTENDS Integers, Sequences, FiniteSets, TLC

VARIABLES raw, readdata, scale, pc, startpos, metadata, boc,
          trigtimes_startpos, trigtimes, number_type, data_startpos, data,
          exc, raisedAt, ret

vars == <<raw, readdata, scale, pc, startpos, metadata, boc,
          trigtimes_startpos, trigtimes, number_type, data_startpos, data,
          exc, raisedAt, ret>>

-----------------------------------------------------------------------------
(* Python sequence primitives                                              *)

Min(a, b) == IF a < b THEN a ELSE b

Max(a, b) == IF a > b THEN a ELSE b

\* Python's normalisation of one slice bound against a sequence of length n:
\* a negative bound counts from the end, and both ends are clamped.
SliceIndex(i, n) == IF i < 0 THEN Max(n + i, 0) ELSE Min(i, n)

\* s[a:b]
PySlice(s, a, b) ==
    LET lo == SliceIndex(a, Len(s))
        hi == SliceIndex(b, Len(s))
    IN  IF hi <= lo THEN <<>> ELSE SubSeq(s, lo + 1, hi)

\* s[a:]
PySliceFrom(s, a) ==
    LET lo == SliceIndex(a, Len(s))
    IN  IF Len(s) <= lo THEN <<>> ELSE SubSeq(s, lo + 1, Len(s))

\* Whether lst[i] raises IndexError (i is a Python index, possibly negative).
IndexErrorAt(lst, i) == i >= Len(lst) \/ i < 0 - Len(lst)

\* lst[i] for an index that does not raise: a negative index counts from the
\* end of the list.
PyIndex(lst, i) == IF i < 0 THEN lst[Len(lst) + i + 1] ELSE lst[i + 1]

\* b'WAVEDESC'
WAVEDESC == <<87, 65, 86, 69, 68, 69, 83, 67>>

\* bytes.find(sub): the lowest offset at which sub occurs, or -1.
Find(s, sub) ==
    LET hits == {i \in 0..(Len(s) - Len(sub)) :
                    SubSeq(s, i + 1, i + Len(sub)) = sub}
    IN  IF hits = {} THEN 0 - 1
        ELSE CHOOSE i \in hits : \A j \in hits : i <= j

\* bytes.strip(b'\x00'): NUL bytes removed from both ends.
RECURSIVE LStripNul(_)
LStripNul(s) == IF s # <<>> /\ Head(s) = 0 THEN LStripNul(Tail(s)) ELSE s

RECURSIVE RStripNul(_)
RStripNul(s) ==
    IF s # <<>> /\ s[Len(s)] = 0 THEN RStripNul(SubSeq(s, 1, Len(s) - 1))
    ELSE s

StripNul(s) == RStripNul(LStripNul(s))

Reverse(s) == [i \in 1..Len(s) |-> s[Len(s) + 1 - i]]

-----------------------------------------------------------------------------
(* struct: sizes and decoding of the layouts lecroy_format uses             *)

RECURSIVE Pow2(_)
Pow2(n) == IF n <= 0 THEN 1 ELSE 2 * Pow2(n - 1)

RECURSIVE Pow256(_)
Pow256(n) == IF n <= 0 THEN 1 ELSE 256 * Pow256(n - 1)

\* m * 2^e with every factor 2 of m moved into the exponent.
RECURSIVE Fin(_, _)
Fin(m, e) ==
    IF m = 0 THEN [k |-> "fin", m |-> 0, e |-> 0]
    ELSE IF m % 2 = 0 THEN Fin(m \div 2, e + 1)
    ELSE [k |-> "fin", m |-> m, e |-> e]

Inf(sign) == [k |-> "inf", m |-> sign, e |-> 0]

NaN == [k |-> "nan", m |-> 0, e |-> 0]

\* struct.Struct(fmt).size
StructSize(fmt) ==
    CASE fmt = "16s" -> 16
      [] fmt = "48s" -> 48
      [] fmt = "h" -> 2
      [] fmt = "i" -> 4
      [] fmt = "f" -> 4
      [] fmt = "d" -> 8
      [] fmt = "dbbbbhh" -> 16

\* The bytes of one item least significant first: as stored for '<',
\* reversed for '>'.
LowFirst(order, b) == IF order = ">" THEN Reverse(b) ELSE b

\* Two's-complement signed integer of 1, 2 or 4 bytes, least significant
\* byte first.  The top byte is made signed before it is weighed, so that
\* every intermediate value stays within 32 bits.
SignedLE(b) ==
    LET n   == Len(b)
        top == IF b[n] >= 128 THEN b[n] - 256 ELSE b[n]
    IN  CASE n = 1 -> top
          [] n = 2 -> top * 256 + b[1]
          [] n = 4 -> top * 16777216 + b[3] * 65536 + b[2] * 256 + b[1]

\* IEEE 754 binary32, least significant byte first.
Float32LE(b) ==
    LET sign == IF b[4] >= 128 THEN 0 - 1 ELSE 1
        ex   == (b[4] % 128) * 2 + (b[3] \div 128)
        frac == (b[3] % 128) * 65536 + b[2] * 256 + b[1]
    IN  IF ex = 255 THEN (IF frac = 0 THEN Inf(sign) ELSE NaN)
        ELSE IF ex = 0 THEN Fin(sign * frac, 0 - 149)
        ELSE Fin(sign * (8388608 + frac), ex - 150)

\* IEEE 754 binary64, least significant byte first.  The significand is
\* read as seven base-256 digits; a value whose nonzero digits span at most
\* three places is returned exactly, any other finite value is identified
\* by its bit pattern.
Float64LE(b) ==
    LET sign == IF b[8] >= 128 THEN 0 - 1 ELSE 1
        ex   == (b[8] % 128) * 16 + (b[7] \div 16)
        sig  == <<b[1], b[2], b[3], b[4], b[5], b[6],
                  (b[7] % 16) + (IF ex > 0 THEN 16 ELSE 0)>>
        nz   == {i \in 1..7 : sig[i] # 0}
        lo   == CHOOSE i \in nz : \A j \in nz : i <= j
        hi   == CHOOSE i \in nz : \A j \in nz : i >= j
        e0   == (IF ex = 0 THEN 1 ELSE ex) - 1075
    IN  IF ex = 2047
        THEN (IF \A i \in 1..6 : b[i] = 0 /\ b[7] % 16 = 0
              THEN Inf(sign) ELSE NaN)
        ELSE IF nz = {} THEN Fin(0, 0)
        ELSE IF hi - lo <= 2
        THEN Fin(sign * (sig[lo]
                         + (IF hi > lo THEN sig[lo + 1] * 256 ELSE 0)
                         + (IF hi > lo + 1 THEN sig[lo + 2] * 65536 ELSE 0)),
                 e0 + 8 * (lo - 1))
        ELSE [k |-> "bits", bytes |-> b]

\* Whether struct.unpack(boc + fmt, rawval) raises struct.error: the buffer
\* must have exactly the size of the layout.
StructError(fmt, rawval) == Len(rawval) # StructSize(fmt)

\* struct.unpack(boc + fmt, rawval), as the tuple it returns.
StructUnpack(order, fmt, rawval) ==
    CASE fmt \in {"16s", "48s"} -> <<rawval>>
      [] fmt \in {"h", "i"} -> <<SignedLE(LowFirst(order, rawval))>>
      [] fmt = "f" -> <<Float32LE(LowFirst(order, rawval))>>
      [] fmt = "d" -> <<Float64LE(LowFirst(order, rawval))>>
      [] fmt = "dbbbbhh" ->
            <<Float64LE(LowFirst(order, SubSeq(rawval, 1, 8))),
              SignedLE(SubSeq(rawval, 9, 9)),
              SignedLE(SubSeq(rawval, 10, 10)),
              SignedLE(SubSeq(rawval, 11, 11)),
              SignedLE(SubSeq(rawval, 12, 12)),
              SignedLE(LowFirst(order, SubSeq(rawval, 13, 14))),
              SignedLE(LowFirst(order, SubSeq(rawval, 15, 16)))>>

-----------------------------------------------------------------------------
(* lecroy_format: field name, offset from the marker, layout                *)

lecroy_format ==
    << <<"descriptor_name", 0, "16s">>,   <<"template_name", 16, "16s">>,
       <<"comm_type", 32, "h">>,          <<"comm_order", 34, "h">>,
       <<"wave_descriptor", 36, "i">>,    <<"user_text", 40, "i">>,
       <<"res_desc1", 44, "i">>,          <<"trig_time_array", 48, "i">>,
       <<"ris_time_array", 52, "i">>,     <<"res_array1", 56, "i">>,
       <<"wave_array1", 60, "i">>,        <<"wave_array2", 64, "i">>,
       <<"res_array2", 68, "i">>,         <<"res_array3", 72, "i">>,
       <<"instrument_name", 76, "16s">>,  <<"instrument_number", 92, "i">>,
       <<"trace_label", 96, "16s">>,      <<"reserved1", 112, "h">>,
       <<"reserved2", 114, "h">>,         <<"wave_array_count", 116, "i">>,
       <<"points_per_screen", 120, "i">>, <<"first_valid_point", 124, "i">>,
       <<"last_valid_point", 128, "i">>,  <<"first_point", 132, "i">>,
       <<"sparsing_factor", 136, "i">>,   <<"segment_index", 140, "i">>,
       <<"subarray_count", 144, "i">>,    <<"sweeps_per_acq", 148, "i">>,
       <<"points_per_pair", 152, "h">>,   <<"pair_offset", 154, "h">>,
       <<"vertical_gain", 156, "f">>,     <<"vertical_offset", 160, "f">>,
       <<"max_value", 164, "f">>,         <<"min_value", 168, "f">>,
       <<"nominal_bits", 172, "h">>,      <<"nom_subarray_count", 174, "h">>,
       <<"horiz_interval", 176, "f">>,    <<"horiz_offset", 180, "d">>,
       <<"pixel_offset", 188, "d">>,      <<"vert_unit", 196, "48s">>,
       <<"horiz_unit", 244, "48s">>,      <<"horiz_uncertainty", 292, "f">>,
       <<"trigger_time", 296, "dbbbbhh">>, <<"acq_duration", 312, "f">>,
       <<"record_type", 316, "h">>,       <<"processing_done", 318, "h">>,
       <<"reserved5", 320, "h">>,         <<"ris_sweeps", 322, "h">>,
       <<"time_base", 324, "h">>,         <<"vert_coupling", 326, "h">>,
       <<"probe_att", 328, "f">>,         <<"fixed_vert_gain", 332, "h">>,
       <<"bandwidth_limit", 334, "h">>,   <<"vertical_vernier", 336, "f">>,
       <<"acq_vert_offset", 340, "f">>,   <<"wave_source", 344, "h">> >>

FieldNames == {lecroy_format[i][1] : i \in 1..Len(lecroy_format)}

FieldEntry(field) ==
    lecroy_format[CHOOSE i \in 1..Len(lecroy_format) :
                      lecroy_format[i][1] = field]

FieldOffset(field) == FieldEntry(field)[2]

FieldLayout(field) == FieldEntry(field)[3]

-----------------------------------------------------------------------------
(* NumPy: arrays are [shape, flat], flat holding the elements in C (row     *)
(* major) order; element [i][j] of a two-dimensional array is               *)
(* flat[i * shape[2] + j + 1].                                              *)

ItemSize(dtype) ==
    CASE dtype = "float64" -> 8
      [] dtype = "int16" -> 2
      [] dtype = "int8" -> 1

\* One element of the platform's (little-endian) dtype.
Item(dtype, b) == IF dtype = "float64" THEN Float64LE(b) ELSE SignedLE(b)

\* Whether np.fromstring(s, dtype, count) raises ValueError: with a negative
\* count the whole string is read and its size must be a multiple of the
\* element size; otherwise the string must hold count elements.
FromstringError(s, dtype, count) ==
    IF count < 0 THEN Len(s) % ItemSize(dtype) # 0
    ELSE Len(s) \div ItemSize(dtype) < count

\* np.fromstring(s, dtype, count) in binary mode.
Fromstring(s, dtype, count) ==
    LET size == ItemSize(dtype)
        n    == IF count < 0 THEN Len(s) \div size ELSE count
    IN  [shape |-> <<n>>,
         flat  |-> [i \in 1..n |->
                       Item(dtype, SubSeq(s, (i - 1) * size + 1, i * size))]]

\* Whether a.reshape(rows, -1) raises ValueError.
ReshapeError(a, rows) == rows = 0 \/ Len(a.flat) % rows # 0

\* a.reshape(rows, -1) of a one-dimensional array, C order: consecutive
\* elements fill one row after the other.
Reshape(a, rows) ==
    [shape |-> <<rows, Len(a.flat) \div rows>>, flat |-> a.flat]

\* A reshape that ignores order='F' and fills row after row.
ReshapeFRowMajor(a, rows) ==
    [shape |-> <<rows, Len(a.flat) \div rows>>, flat |-> a.flat]

\* a.reshape(rows, -1, order='F') of a one-dimensional array: the first
\* index changes fastest, so consecutive elements fill one column after the
\* other; element [i][j] is a[j * rows + i].
ReshapeF(a, rows) ==
    LET cols == Len(a.flat) \div rows
    IN  [shape |-> <<rows, cols>>,
         flat  |-> [p \in 1..Len(a.flat) |->
                       a.flat[((p - 1) % cols) * rows
                              + ((p - 1) \div cols) + 1]]]

\* int(x / 8): true division, then truncation towards zero.
IntDiv8(x) == IF x < 0 THEN 0 - ((0 - x) \div 8) ELSE x \div 8

\* x * f for an integer sample x and a float f.
FMulInt(x, f) ==
    CASE f.k = "fin" -> Fin(x * f.m, f.e)
      [] f.k = "inf" -> IF x = 0 THEN NaN
                        ELSE Inf(IF x > 0 THEN f.m ELSE 0 - f.m)
      [] f.k = "nan" -> NaN

\* a + b for floats.  Finite operands are added exactly (the bounded inputs
\* never need float64 rounding).
FAdd(a, b) ==
    CASE a.k = "nan" \/ b.k = "nan" -> NaN
      [] a.k = "inf" /\ b.k = "inf" -> IF a.m = b.m THEN a ELSE NaN
      [] a.k = "inf" /\ b.k = "fin" -> a
      [] a.k = "fin" /\ b.k = "inf" -> b
      [] a.k = "fin" /\ b.k = "fin" ->
            IF a.m = 0 THEN b
            ELSE IF b.m = 0 THEN a
            ELSE LET e == Min(a.e, b.e)
                 IN  Fin(a.m * Pow2(a.e - e) + b.m * Pow2(b.e - e), e)

-----------------------------------------------------------------------------
(* The lookup tables of read()                                              *)

RecordTypes ==
    <<"single sweep", "interleaved", "histogram", "graph",
      "filter coefficient", "complex", "extrema", "sequence obsolete",
      "centered RIS", "peak detect">>

ProcessingDone ==
    <<"no processing", "fir filter", "interpolated", "sparsed",
      "autoscaled", "no result", "rolling", "cumulative">>

VertCoupling ==
    <<"DC 50 Ohm", "ground", "DC 1 MOhm", "ground", "AC 1 MOhm">>

Magnitudes == <<1, 2, 5, 10, 20, 50, 100, 200, 500>>

TimePrefixes == <<"p", "n", "u", "m", "", "k">>

GainPrefixes == <<"u", "m", "", "k">>

\* '{} {}<unit>'.format(val, prefix)
Format(val, prefix, unit) == ToString(val) \o " " \o prefix \o unit

\* Lines 151-157: whether the time_base translation raises IndexError.
\* tb % 9 is never negative, so only the prefix lookup can raise.
TimeBaseError(tb) == tb # 100 /\ IndexErrorAt(TimePrefixes, tb \div 9)

\* A translation of time_base that ends in fixed_vert_gain's unit.
TimeBaseVolts(tb) ==
    IF tb = 100 THEN "external"
    ELSE Format(PyIndex(Magnitudes, tb % 9),
                PyIndex(TimePrefixes, tb \div 9), "V/div")

TimeBase(tb) ==
    IF tb = 100 THEN "external"
    ELSE Format(PyIndex(Magnitudes, tb % 9),
                PyIndex(TimePrefixes, tb \div 9), "s/div")

\* Lines 159-162.
FixedVertGainError(fvt) == IndexErrorAt(GainPrefixes, fvt \div 9)

FixedVertGain(fvt) ==
    Format(PyIndex(Magnitudes, fvt % 9),
           PyIndex(GainPrefixes, fvt \div 9), "V/div")

-----------------------------------------------------------------------------
(* read(fn, readdata=True, scale=True)                                      *)

None == [shape |-> <<>>, flat |-> <<>>]

\* An exception leaves read(): nothing is returned.
Raise(name, where) ==
    /\ exc' = name
    /\ raisedAt' = where
    /\ pc' = "raised"

\* Lines 97-99: the file content is searched for the marker.  bytes.find
\* returns -1 when there is none, and read() goes on with that offset.
Locate ==
    /\ pc = "locate"
    /\ startpos' = Find(raw, WAVEDESC)
    /\ pc' = "slice"
    /\ UNCHANGED <<raw, readdata, scale, metadata, boc, trigtimes_startpos,
                   trigtimes, number_type, data_startpos, data, exc,
                   raisedAt, ret>>

\* Line 105: metadata[field] = raw[startpos + val[0]: startpos + val[0] + fieldlen]
FieldSlice(field) ==
    PySlice(raw, startpos + FieldOffset(field),
            startpos + FieldOffset(field) + StructSize(FieldLayout(field)))

\* Lines 101-105: the raw binary string of every field.
SliceFields ==
    /\ pc = "slice"
    /\ metadata' = [field \in FieldNames |-> FieldSlice(field)]
    /\ pc' = "byteorder"
    /\ UNCHANGED <<raw, readdata, scale, startpos, boc, trigtimes_startpos,
                   trigtimes, number_type, data_startpos, data, exc,
                   raisedAt, ret>>

\* Python's == between a tuple and an int: values of different types are
\* never equal.
TupleEqInt(t, n) == FALSE

\* Lines 108-111: the byte order character.  struct.unpack returns a tuple,
\* which line 108 compares with 0.
ByteOrderChar(comm_order) ==
    IF TupleEqInt(StructUnpack("<", "h", comm_order), 0) THEN ">" ELSE "<"

\* Lines 107-111.  struct.unpack('h', ...) raises struct.error unless the
\* slice holds the two bytes of the field.
ByteOrder ==
    /\ pc = "byteorder"
    /\ IF StructError("h", metadata["comm_order"])
       THEN /\ Raise("struct.error", "byteorder")
            /\ UNCHANGED boc
       ELSE /\ boc' = ByteOrderChar(metadata["comm_order"])
            /\ pc' = "unpack"
            /\ UNCHANGED <<exc, raisedAt>>
    /\ UNCHANGED <<raw, readdata, scale, startpos, metadata,
                   trigtimes_startpos, trigtimes, number_type, data_startpos,
                   data, ret>>

\* Lines 115-119: the value of one field.
UnpackField(order, field, rawval) ==
    LET fmt == FieldLayout(field)
        val == StructUnpack(order, fmt, rawval)
    IN  IF field = "trigger_time" THEN val
        ELSE IF fmt \in {"16s", "48s"} THEN StripNul(val[1])
        ELSE val[1]

\* Lines 113-120: every field is unpacked in the byte order boc; the first
\* slice of the wrong size raises struct.error.
Unpack ==
    /\ pc = "unpack"
    /\ IF \E field \in FieldNames :
             StructError(FieldLayout(field), metadata[field])
       THEN /\ Raise("struct.error", "unpack")
            /\ UNCHANGED metadata
       ELSE /\ metadata' = [field \in FieldNames |->
                               UnpackField(boc, field, metadata[field])]
            /\ pc' = "pretty"
            /\ UNCHANGED <<exc, raisedAt>>
    /\ UNCHANGED <<raw, readdata, scale, startpos, boc, trigtimes_startpos,
                   trigtimes, number_type, data_startpos, data, ret>>

\* Lines 125-162: whether a table lookup raises IndexError.
PrettyError(md) ==
    \/ IndexErrorAt(RecordTypes, md["record_type"])
    \/ IndexErrorAt(ProcessingDone, md["processing_done"])
    \/ IndexErrorAt(VertCoupling, md["vert_coupling"])
    \/ TimeBaseError(md["time_base"])
    \/ FixedVertGainError(md["fixed_vert_gain"])

\* Lines 123-162: the coded fields are overwritten by their strings.
PrettyFormat(md) ==
    [md EXCEPT
        !["trigger_time"] = Reverse(SubSeq(@, 1, Len(@) - 1)),
        !["record_type"] = PyIndex(RecordTypes, @),
        !["processing_done"] = PyIndex(ProcessingDone, @),
        !["vert_coupling"] = PyIndex(VertCoupling, @),
        !["time_base"] = TimeBase(@),
        !["fixed_vert_gain"] = FixedVertGain(@)]

\* A branch that extracts the arrays whatever readdata says.
BranchAlways(rd) == "trigtimes"

\* Lines 164 and 190: if readdata: ... else: return metadata
Branch(rd) == IF rd THEN "trigtimes" ELSE "return"

\* Lines 122-164.
Pretty ==
    /\ pc = "pretty"
    /\ IF PrettyError(metadata)
       THEN /\ Raise("IndexError", "pretty")
            /\ UNCHANGED metadata
       ELSE /\ metadata' = PrettyFormat(metadata)
            /\ pc' = Branch(readdata)
            /\ UNCHANGED <<exc, raisedAt>>
    /\ UNCHANGED <<raw, readdata, scale, startpos, boc, trigtimes_startpos,
                   trigtimes, number_type, data_startpos, data, ret>>

\* A trigger time offset that leaves out the marker's offset.
TrigtimesStartposNoBase(md) == md["wave_descriptor"] + md["user_text"]

\* Lines 166-167.
TrigtimesStartpos(md) == startpos + md["wave_descriptor"] + md["user_text"]

\* Lines 165-170: the trigger times.
ReadTrigtimes ==
    /\ pc = "trigtimes"
    /\ trigtimes_startpos' = TrigtimesStartpos(metadata)
    /\ LET s     == PySliceFrom(raw, trigtimes_startpos')
           count == IntDiv8(metadata["trig_time_array"])
       IN  IF FromstringError(s, "float64", count)
           THEN /\ Raise("ValueError", "trigtimes")
                /\ UNCHANGED trigtimes
           ELSE IF ReshapeError(Fromstring(s, "float64", count), 2)
           THEN /\ Raise("ValueError", "trigtimes")
                /\ UNCHANGED trigtimes
           ELSE /\ trigtimes' = ReshapeF(Fromstring(s, "float64", count), 2)
                /\ pc' = "samples"
                /\ UNCHANGED <<exc, raisedAt>>
    /\ UNCHANGED <<raw, readdata, scale, startpos, metadata, boc,
                   number_type, data_startpos, data, ret>>

\* Line 173: number_type = np.int16 if metadata['comm_type'] else np.int8
NumberType(comm_type) == IF comm_type # 0 THEN "int16" ELSE "int8"

\* Line 176.
DataStartpos(md) == trigtimes_startpos + md["trig_time_array"]

\* Lines 172-179: the samples.
ReadSamples ==
    /\ pc = "samples"
    /\ number_type' = NumberType(metadata["comm_type"])
    /\ data_startpos' = DataStartpos(metadata)
    /\ LET s == PySliceFrom(raw, data_startpos')
       IN  IF FromstringError(s, number_type', metadata["wave_array_count"])
           THEN /\ Raise("ValueError", "samples")
                /\ UNCHANGED data
           ELSE /\ data' = Fromstring(s, number_type',
                                      metadata["wave_array_count"])
                /\ pc' = "scale"
                /\ UNCHANGED <<exc, raisedAt>>
    /\ UNCHANGED <<raw, readdata, scale, startpos, metadata, boc,
                   trigtimes_startpos, trigtimes, ret>>

\* A scaling that leaves out the offset.
ScaledNoOffset(a, gain, offset) ==
    [a EXCEPT !.flat = [i \in 1..Len(a.flat) |-> FMulInt(a.flat[i], gain)]]

\* Lines 183-184: data * vertical_gain, then += vertical_offset.
Scaled(a, gain, offset) ==
    [a EXCEPT !.flat = [i \in 1..Len(a.flat) |->
                           FAdd(FMulInt(a.flat[i], gain), offset)]]

\* Lines 181-184.
Scale ==
    /\ pc = "scale"
    /\ data' = IF scale
               THEN Scaled(data, metadata["vertical_gain"],
                           metadata["vertical_offset"])
               ELSE data
    /\ pc' = "reshape"
    /\ UNCHANGED <<raw, readdata, scale, startpos, metadata, boc,
                   trigtimes_startpos, trigtimes, number_type, data_startpos,
                   exc, raisedAt, ret>>

\* Lines 186-187.
ReshapeData ==
    /\ pc = "reshape"
    /\ IF metadata["subarray_count"] > 1
       THEN IF ReshapeError(data, metadata["subarray_count"])
            THEN /\ Raise("ValueError", "reshape")
                 /\ UNCHANGED data
            ELSE /\ data' = Reshape(data, metadata["subarray_count"])
                 /\ pc' = "return"
                 /\ UNCHANGED <<exc, raisedAt>>
       ELSE /\ pc' = "return"
            /\ UNCHANGED <<data, exc, raisedAt>>
    /\ UNCHANGED <<raw, readdata, scale, startpos, metadata, boc,
                   trigtimes_startpos, trigtimes, number_type, data_startpos,
                   ret>>

\* Lines 189 and 191: (metadata, trigtimes, data) with readdata, metadata
\* alone without.
Return ==
    /\ pc = "return"
    /\ ret' = IF readdata THEN "metadata, trigtimes, data" ELSE "metadata"
    /\ pc' = "done"
    /\ UNCHANGED <<raw, readdata, scale, startpos, metadata, boc,
                   trigtimes_startpos, trigtimes, number_type, data_startpos,
                   data, exc, raisedAt>>

-----------------------------------------------------------------------------
(* Input files.  A file is built the way the instrument lays it out: some   *)
(* bytes before the marker, the 346-byte WAVEDESC block, the user text, the *)
(* trigger time array and the sample array.  The block's length fields are  *)
(* set independently of what the file really holds, so that truncated and   *)
(* inconsistent files are among the inputs.                                 *)

\* Largest number of samples a file holds.
MaxSamples == 4

\* Largest number of doubles a file's trigger time array holds.
MaxTrig == 4

\* Largest number of bytes before the marker.
MaxPrefix == 2

\* The n bytes of the two's-complement integer v, in the given byte order.
PackInt(order, v, n) ==
    LET le == [i \in 1..n |-> (v \div Pow256(i - 1)) % 256]
    IN  IF order = ">" THEN Reverse(le) ELSE le

\* binary32 of h / 2 for the values the inputs use.
PackFloat(order, h) ==
    LET le == CASE h = 0 -> <<0, 0, 0, 0>>
                [] h = 1 -> <<0, 0, 0, 63>>
                [] h = 2 -> <<0, 0, 128, 63>>
                [] h = 3 -> <<0, 0, 192, 63>>
                [] h = 4 -> <<0, 0, 0, 64>>
                [] h = 0 - 2 -> <<0, 0, 128, 191>>
                [] h = 0 - 5 -> <<0, 0, 32, 192>>
    IN  IF order = ">" THEN Reverse(le) ELSE le

\* binary64 of the integer n, 0 <= n <= 15.
PackDouble(order, n) ==
    LET e  == CASE n < 2 -> 0 [] n < 4 -> 1 [] n < 8 -> 2 [] OTHER -> 3
        le == IF n = 0 THEN <<0, 0, 0, 0, 0, 0, 0, 0>>
              ELSE <<0, 0, 0, 0, 0, 0,
                     ((1023 + e) % 16) * 16 + (n - Pow2(e)) * Pow2(4 - e),
                     (1023 + e) \div 16>>
    IN  IF order = ">" THEN Reverse(le) ELSE le

Zeros(n) == [i \in 1..n |-> 0]

\* The integer a configuration gives a header field (0 when it gives none).
HeaderInt(c, field) ==
    CASE field = "comm_type" -> c.comm_type
      [] field = "comm_order" -> c.comm_order
      [] field = "wave_descriptor" -> c.wave_descriptor
      [] field = "user_text" -> c.user_text
      [] field = "trig_time_array" -> c.trig_time_array
      [] field = "wave_array_count" -> c.wave_array_count
      [] field = "subarray_count" -> c.subarray_count
      [] field = "record_type" -> c.record_type
      [] field = "processing_done" -> c.processing_done
      [] field = "time_base" -> c.time_base
      [] field = "vert_coupling" -> c.vert_coupling
      [] field = "fixed_vert_gain" -> c.fixed_vert_gain
      [] OTHER -> 0

\* The bytes of one header field.
PackField(c, field) ==
    LET fmt == FieldLayout(field)
    IN  CASE field = "descriptor_name" ->
                (IF c.marker THEN WAVEDESC ELSE <<88, 65, 86, 69, 68, 69, 83, 67>>)
                \o Zeros(8)
          [] field = "template_name" ->
                <<76, 69, 67, 82, 79, 89, 95, 50, 95, 51>> \o Zeros(6)
          [] field = "vertical_gain" -> PackFloat(c.order, c.gain)
          [] field = "vertical_offset" -> PackFloat(c.order, c.offset)
          [] fmt \in {"h", "i"} ->
                PackInt(c.order, HeaderInt(c, field), StructSize(fmt))
          [] OTHER -> Zeros(StructSize(fmt))

RECURSIVE PackHeader(_, _)
PackHeader(c, i) ==
    IF i > Len(lecroy_format) THEN <<>>
    ELSE PackField(c, lecroy_format[i][1]) \o PackHeader(c, i + 1)

\* The stored samples: first, first + 1, ... in comm_type's item size.
RECURSIVE PackSamples(_, _)
PackSamples(c, i) ==
    IF i > c.nsamp THEN <<>>
    ELSE PackInt(c.order, c.first + i - 1, IF c.comm_type # 0 THEN 2 ELSE 1)
         \o PackSamples(c, i + 1)

\* The stored trigger times: the doubles 1.0, 2.0, ...
RECURSIVE PackTrig(_, _)
PackTrig(c, i) ==
    IF i > c.ntrig THEN <<>>
    ELSE PackDouble(c.order, i) \o PackTrig(c, i + 1)

\* The file of a configuration, its last c.cut bytes missing.
MkFile(c) ==
    LET whole == [i \in 1..c.prefix |-> 35] \o PackHeader(c, 1)
                 \o [i \in 1..c.textlen |-> 32]
                 \o PackTrig(c, 1) \o PackSamples(c, 1)
    IN  SubSeq(whole, 1, Len(whole) - Min(c.cut, Len(whole)))

\* A consistent little-endian file: four byte samples 1, 2, 3, 4, gain 2.0,
\* offset 1.0, one segment, no trigger times.
Typical ==
    [order |-> "<", comm_order |-> 1, comm_type |-> 0, marker |-> TRUE,
     prefix |-> 0, wave_descriptor |-> 346, user_text |-> 0, textlen |-> 0,
     trig_time_array |-> 0, ntrig |-> 0, wave_array_count |-> 4,
     nsamp |-> 4, first |-> 1, subarray_count |-> 1, gain |-> 4,
     offset |-> 2, record_type |-> 0, processing_done |-> 0,
     vert_coupling |-> 0, time_base |-> 0, fixed_vert_gain |-> 0,
     cut |-> 0]

\* Codes around the ends of the three lookup tables.
EnumCases ==
    {[Typical EXCEPT !.record_type = r, !.processing_done = p,
                     !.vert_coupling = v] :
        r \in {0 - 11, 0 - 10, 0 - 1, 0, 3, 9, 10},
        p \in {0 - 9, 0 - 8, 0 - 1, 0, 7, 8},
        v \in {0 - 6, 0 - 5, 0 - 1, 0, 4, 5}}

\* Every time_base code of the table, 100, and codes beyond both ends;
\* likewise for fixed_vert_gain.
UnitCases ==
    {[Typical EXCEPT !.time_base = t] : t \in (0 - 56)..56 \cup {99, 100, 101}}
    \cup {[Typical EXCEPT !.fixed_vert_gain = g] : g \in (0 - 38)..38 \cup {100}}
    \cup {[Typical EXCEPT !.time_base = t, !.fixed_vert_gain = g,
                          !.record_type = r] :
             t \in {100, 53}, g \in {0 - 1, 35, 36}, r \in {3, 10}}

\* Stored samples against wave_array_count and subarray_count.
SampleCases ==
    {[Typical EXCEPT !.nsamp = n, !.wave_array_count = w,
                     !.subarray_count = s, !.comm_type = t,
                     !.first = IF t = 0 THEN 1 ELSE 0 - 2] :
        n \in 0..MaxSamples, w \in (0 - 1)..MaxSamples,
        s \in (0 - 1)..3, t \in {0, 1}}

\* vertical_gain and vertical_offset.
ScaleCases ==
    {[Typical EXCEPT !.gain = g, !.offset = o, !.comm_type = t,
                     !.subarray_count = s, !.first = f] :
        g \in {0, 1, 3, 4, 0 - 2}, o \in {0, 2, 0 - 5}, t \in {0, 1},
        s \in {1, 2}, f \in {1, 0 - 3}}

\* Stored trigger times against trig_time_array, behind a prefix and a
\* user text.
TrigCases ==
    {[Typical EXCEPT !.ntrig = n, !.trig_time_array = a, !.prefix = p,
                     !.user_text = u, !.textlen = u, !.comm_type = t] :
        n \in 0..MaxTrig, a \in {0, 8, 12, 16, 32},
        p \in 0..MaxPrefix, u \in {0, 3}, t \in {0, 1}}

\* Negative length fields.
NegativeCases ==
    {[Typical EXCEPT !.wave_descriptor = d, !.user_text = u,
                     !.trig_time_array = a, !.wave_array_count = w,
                     !.ntrig = 2, !.prefix = p] :
        d \in {346, 0 - 4, 0 - 16}, u \in {0, 0 - 2}, a \in {16, 0 - 8, 0 - 7},
        w \in {4, 0 - 1, 0 - 4}, p \in {0, 1}}

\* Both byte orders: comm_order is 0 in a big-endian file and 1 in a
\* little-endian one.
OrderCases ==
    {[Typical EXCEPT !.order = o, !.comm_order = IF o = ">" THEN 0 ELSE 1,
                     !.wave_array_count = w, !.nsamp = w, !.record_type = r,
                     !.comm_type = t] :
        o \in {"<", ">"}, w \in {0, 2, 4}, r \in {0, 3}, t \in {0, 1}}

\* Files without the marker, and files cut short.
BrokenCases ==
    {[Typical EXCEPT !.marker = m, !.cut = k, !.prefix = p, !.ntrig = n,
                     !.trig_time_array = 8 * n] :
        m \in BOOLEAN, k \in {0, 1, 3, 5, 20, 40, 312, 346, 400},
        p \in 0..MaxPrefix, n \in {0, 2}}

Cases ==
    EnumCases \cup UnitCases \cup SampleCases \cup ScaleCases \cup TrigCases
    \cup NegativeCases \cup OrderCases \cup BrokenCases

Init ==
    /\ \E c \in Cases : raw = MkFile(c)
    /\ readdata \in BOOLEAN
    /\ scale \in BOOLEAN
    /\ pc = "locate"
    /\ startpos = 0
    /\ metadata = <<>>
    /\ boc = ""
    /\ trigtimes_startpos = 0
    /\ trigtimes = None
    /\ number_type = ""
    /\ data_startpos = 0
    /\ data = None
    /\ exc = ""
    /\ raisedAt = ""
    /\ ret = ""

Next ==
    \/ Locate
    \/ SliceFields
    \/ ByteOrder
    \/ Unpack
    \/ Pretty
    \/ ReadTrigtimes
    \/ ReadSamples
    \/ Scale
    \/ ReshapeData
    \/ Return

Spec == Init /\ [][Next]_vars

-----------------------------------------------------------------------------
(* What the properties below speak of, read directly from the file          *)

\* The file holds the marker at offset i.
MarkerAt(i) ==
    /\ i >= 0
    /\ i + 8 <= Len(raw)
    /\ \A j \in 1..8 : raw[i + j] = WAVEDESC[j]

NoMarker == \A i \in 0..Len(raw) : ~MarkerAt(i)

\* The descriptor base: the offset of the first marker.
Base == CHOOSE i \in 0..Len(raw) : MarkerAt(i) /\ \A j \in 0..(i - 1) : ~MarkerAt(j)

\* The n bytes of the file at offset off, 0 <= off and off + n <= Len(raw).
BytesAt(off, n) == [j \in 1..n |-> raw[off + j]]

\* The integer header field as the reader decodes it (least significant
\* byte first), and as a big-endian decoder would.
Code(field) ==
    SignedLE(BytesAt(Base + FieldOffset(field), StructSize(FieldLayout(field))))

CodeBigEndian(field) ==
    SignedLE(Reverse(BytesAt(Base + FieldOffset(field),
                             StructSize(FieldLayout(field)))))

\* read() has unpacked the header (lines 113-120 ended without an exception).
Unpacked ==
    \/ pc \in {"pretty", "trigtimes", "samples", "scale", "reshape",
               "return", "done"}
    \/ pc = "raised" /\ raisedAt \in {"pretty", "trigtimes", "samples", "reshape"}

\* read() has translated the header (lines 122-162 ended without one).
Translated ==
    \/ pc \in {"trigtimes", "samples", "scale", "reshape", "return", "done"}
    \/ pc = "raised" /\ raisedAt \in {"trigtimes", "samples", "reshape"}

\* read() has extracted both arrays (lines 165-179 ended without one).
Extracted ==
    \/ pc \in {"scale", "reshape", "return", "done"} /\ readdata
    \/ pc = "raised" /\ raisedAt = "reshape"

\* Element [i][j] of a two-dimensional array (i, j from 0).
At(a, i, j) == a.flat[i * a.shape[2] + j + 1]

-----------------------------------------------------------------------------
(* C1 *)

\* C1: a file without the marker makes read() fail in the locator step with
\* a FormatError: read() never gets past line 99 with such a file.
C1_MissingMarkerFailsInLocator ==
    NoMarker =>
        \/ pc = "locate"
        \/ pc = "raised" /\ exc = "FormatError" /\ raisedAt = "locate"

-----------------------------------------------------------------------------
(* C2 *)

\* C2: the byte order follows comm_order: when the field is 0 (both bytes
\* zero, in either order) the header is decoded big-endian, otherwise
\* little-endian.
C2_ByteOrderFollowsCommOrder ==
    Unpacked =>
        IF Code("comm_order") = 0
        THEN /\ boc = ">"
             /\ metadata["wave_descriptor"] = CodeBigEndian("wave_descriptor")
        ELSE /\ boc = "<"
             /\ metadata["wave_descriptor"] = Code("wave_descriptor")

-----------------------------------------------------------------------------
(* C3 *)

\* A code c is an index of a table of n entries.
InTable(c, n) == 0 <= c /\ c < n

CodesInRange ==
    /\ InTable(Code("record_type"), 10)
    /\ InTable(Code("processing_done"), 8)
    /\ InTable(Code("vert_coupling"), 5)
    /\ Code("time_base") = 100 \/ InTable(Code("time_base"), 54)
    /\ InTable(Code("fixed_vert_gain"), 36)

\* C3: a code outside its table, negative ones included, makes read() fail:
\* the translation never completes with such a code.
C3_OutOfRangeCodeFails == Translated => CodesInRange

-----------------------------------------------------------------------------
(* C4 *)

\* "<v> <p><unit>" with v the (c mod 9)-th magnitude and p the (c div 9)-th
\* prefix, both counted from 0.
UnitString(c, prefixes, unit) ==
    ToString(<<1, 2, 5, 10, 20, 50, 100, 200, 500>>[(c % 9) + 1])
    \o " " \o prefixes[(c \div 9) + 1] \o unit

\* C4: time_base 100 is translated to "external"; every other time_base
\* code of the table to "<v> <p>s/div", every fixed_vert_gain code of the
\* table to "<v> <p>V/div"; and codes of the tables never make the
\* translation fail.
C4_UnitStrings ==
    /\ Translated =>
          /\ Code("time_base") = 100 => metadata["time_base"] = "external"
          /\ InTable(Code("time_base"), 54) =>
                metadata["time_base"] =
                    UnitString(Code("time_base"),
                               <<"p", "n", "u", "m", "", "k">>, "s/div")
          /\ InTable(Code("fixed_vert_gain"), 36) =>
                metadata["fixed_vert_gain"] =
                    UnitString(Code("fixed_vert_gain"),
                               <<"u", "m", "", "k">>, "V/div")
    /\ (pc = "raised" /\ raisedAt = "pretty") => ~CodesInRange

\* time_base 100 beside the last fixed_vert_gain code and a record_type
\* other than the default.
C4_Witness ==
    /\ pc = "done"
    /\ Code("time_base") = 100
    /\ Code("fixed_vert_gain") = 35
    /\ Code("record_type") = 3
    /\ metadata["time_base"] = "external"
    /\ metadata["fixed_vert_gain"] = "500 kV/div"

-----------------------------------------------------------------------------
(* C5 *)

\* C5: with readdata the returned samples are exactly wave_array_count
\* elements; with subarray_count = N > 1 they are N rows of
\* wave_array_count / N, the reshape succeeding exactly when N divides
\* wave_array_count; with subarray_count <= 1 they stay one-dimensional.
C5_SampleCountAndShape ==
    readdata =>
        /\ pc = "done" =>
              /\ Len(data.flat) = Code("wave_array_count")
              /\ IF Code("subarray_count") > 1
                 THEN /\ Code("wave_array_count") % Code("subarray_count") = 0
                      /\ data.shape =
                           <<Code("subarray_count"),
                             Code("wave_array_count") \div Code("subarray_count")>>
                 ELSE data.shape = <<Code("wave_array_count")>>
        /\ (pc = "raised" /\ raisedAt = "reshape") =>
              /\ Code("subarray_count") > 1
              /\ Code("wave_array_count") % Code("subarray_count") # 0

-----------------------------------------------------------------------------
(* C6 *)

\* The samples as stored: the items of number_type that raw[data_startpos:]
\* begins with, as many as data holds.
RawSamples ==
    LET s    == PySliceFrom(raw, data_startpos)
        size == IF number_type = "int16" THEN 2 ELSE 1
    IN  [i \in 1..Len(data.flat) |->
            SignedLE(SubSeq(s, (i - 1) * size + 1, i * size))]

\* vertical_gain and vertical_offset as stored.
Gain == Float32LE(BytesAt(Base + 156, 4))

Offset == Float32LE(BytesAt(Base + 160, 4))

\* read() is past lines 181-184.
ScaleDone ==
    \/ pc \in {"reshape", "return", "done"} /\ readdata
    \/ pc = "raised" /\ raisedAt = "reshape"

\* C6: with scale every sample is raw * vertical_gain + vertical_offset of
\* the raw sample at its index; without, it is the raw integer.
C6_ScalingLinear ==
    ScaleDone =>
        \A i \in 1..Len(data.flat) :
            data.flat[i] = IF scale
                           THEN FAdd(FMulInt(RawSamples[i], Gain), Offset)
                           ELSE RawSamples[i]

\* Raw samples 1, 2, 3, 4 with gain 2.0 and offset 1.0 come out as
\* 3.0, 5.0, 7.0, 9.0.
C6_Witness ==
    /\ pc = "done"
    /\ readdata
    /\ scale
    /\ RawSamples = <<1, 2, 3, 4>>
    /\ Gain = Fin(2, 0)
    /\ Offset = Fin(1, 0)
    /\ data.flat = <<Fin(3, 0), Fin(5, 0), Fin(7, 0), Fin(9, 0)>>

-----------------------------------------------------------------------------
(* C7 *)

\* Every field of the header lies within the file.
HeaderDecodes == ~NoMarker /\ Base + 346 <= Len(raw)

\* No lookup of the translation raises.
HeaderTranslates ==
    ~PrettyError([field \in {"record_type", "processing_done",
                             "vert_coupling", "time_base",
                             "fixed_vert_gain"} |-> Code(field)])

\* The sample array the header describes is not all in the file.
SamplesMissing ==
    FromstringError(
        PySliceFrom(raw, Base + Code("wave_descriptor") + Code("user_text")
                         + Code("trig_time_array")),
        NumberType(Code("comm_type")), Code("wave_array_count"))

\* C7: without readdata no array is extracted and the metadata alone is
\* returned, for every file whose header decodes and translates.
C7_MetadataOnly ==
    ~readdata =>
        /\ pc \notin {"trigtimes", "samples", "scale", "reshape"}
        /\ trigtimes = None
        /\ data = None
        /\ pc = "raised" => raisedAt \in {"byteorder", "unpack", "pretty"}
        /\ pc = "done" => ret = "metadata"
        /\ (HeaderDecodes /\ HeaderTranslates) => pc # "raised"

\* Metadata returned for a file whose samples are cut short.
C7_Witness ==
    /\ ~readdata
    /\ pc = "done"
    /\ ret = "metadata"
    /\ SamplesMissing

-----------------------------------------------------------------------------
(* C8 *)

\* C8: with a negative length field, or with an array reaching past the end
\* of the file, read() fails: the extraction never completes.
C8_BadLengthsFail ==
    Extracted =>
        /\ Code("wave_descriptor") >= 0
        /\ Code("user_text") >= 0
        /\ Code("trig_time_array") >= 0
        /\ Code("wave_array_count") >= 0
        /\ trigtimes_startpos + Code("trig_time_array") <= Len(raw)
        /\ data_startpos
           + Code("wave_array_count") * (IF Code("comm_type") = 0 THEN 1 ELSE 2)
             <= Len(raw)

-----------------------------------------------------------------------------
(* C9 *)

\* The k-th double (k from 0) of the flat sequence read at the trigger time
\* offset.
Double(k) ==
    Float64LE(SubSeq(PySliceFrom(raw, trigtimes_startpos), 8 * k + 1, 8 * k + 8))

\* read() is past lines 165-170.
TrigRead ==
    \/ pc \in {"samples", "scale", "reshape", "return", "done"} /\ readdata
    \/ pc = "raised" /\ raisedAt \in {"samples", "reshape"}

\* C9 as stated: the flat sequence is split into two halves that are zipped;
\* segment k is (d[k], d[n+k]).
C9_HalvesZipped ==
    TrigRead =>
        \A k \in 0..(trigtimes.shape[2] - 1) :
            /\ At(trigtimes, 0, k) = Double(k)
            /\ At(trigtimes, 1, k) = Double(trigtimes.shape[2] + k)

\* C9 as the code has it: the 2n doubles are paired element by element;
\* trigtimes has two rows of n, and column k is (d[2k], d[2k+1]).
C9_Alternated ==
    TrigRead =>
        /\ trigtimes.shape[1] = 2
        /\ Len(trigtimes.flat) = 2 * trigtimes.shape[2]
        /\ \A k \in 0..(trigtimes.shape[2] - 1) :
              /\ At(trigtimes, 0, k) = Double(2 * k)
              /\ At(trigtimes, 1, k) = Double(2 * k + 1)

\* The doubles 1.0, 2.0, 3.0, 4.0 come out as the rows (1.0, 3.0) and
\* (2.0, 4.0).
C9_Witness ==
    /\ pc = "done"
    /\ readdata
    /\ trigtimes.shape = <<2, 2>>
    /\ <<Double(0), Double(1), Double(2), Double(3)>>
         = <<Fin(1, 0), Fin(2, 0), Fin(3, 0), Fin(4, 0)>>
    /\ trigtimes.flat = <<Fin(1, 0), Fin(3, 0), Fin(2, 0), Fin(4, 0)>>

-----------------------------------------------------------------------------
(* C10 *)

\* read() is past line 167, past line 176.
TrigOffsetSet ==
    TrigRead \/ (pc = "raised" /\ raisedAt = "trigtimes")

DataOffsetSet ==
    Extracted \/ (pc = "raised" /\ raisedAt = "samples")

\* C10: the trigger times start at base + wave_descriptor + user_text, the
\* samples trig_time_array bytes later; samples are 8-bit when comm_type is
\* 0 and 16-bit otherwise; and the header's numbers these are computed from
\* are the same after the translation.
C10_ArrayPlacement ==
    /\ Translated =>
          \A field \in {"comm_type", "wave_descriptor", "user_text",
                        "trig_time_array", "wave_array_count",
                        "subarray_count"} :
              metadata[field] = Code(field)
    /\ TrigOffsetSet =>
          trigtimes_startpos =
              Base + Code("wave_descriptor") + Code("user_text")
    /\ DataOffsetSet =>
          /\ data_startpos =
                Base + Code("wave_descriptor") + Code("user_text")
                + Code("trig_time_array")
          /\ number_type = IF Code("comm_type") = 0 THEN "int8" ELSE "int16"
    /\ (TrigRead /\ trigtimes_startpos >= 0) =>
          \A i \in 0..1 : \A j \in 0..(trigtimes.shape[2] - 1) :
              At(trigtimes, i, j) =
                  Float64LE(BytesAt(trigtimes_startpos + 8 * (2 * j + i), 8))
    /\ (pc = "scale" /\ data_startpos >= 0) =>
          \A i \in 1..Len(data.flat) :
              data.flat[i] =
                  SignedLE(BytesAt(data_startpos
                                   + (i - 1) * (IF Code("comm_type") = 0 THEN 1 ELSE 2),
                                   IF Code("comm_type") = 0 THEN 1 ELSE 2))

\* A file with two bytes before the marker, three bytes of user text, two
\* trigger times and four 16-bit samples.
C10_Witness ==
    /\ pc = "done"
    /\ readdata
    /\ Base = 2
    /\ Code("user_text") = 3
    /\ Code("trig_time_array") = 16
    /\ Code("comm_type") = 1
    /\ trigtimes_startpos = 351
    /\ data_startpos = 367
    /\ number_type = "int16"
    /\ trigtimes.shape = <<2, 1>>
    /\ data.shape = <<4>>

=============================================================================
